---- MODULE Spec2Model ----
(***************************************************************************)
(* A model of serials_main.py: the SerialThread worker that accumulates    *)
(* the bytes read from a serial port in data_buffer, cuts 36-byte frames   *)
(* ending in 0x80 0x7F out of it (parse_buffer) and decodes each into      *)
(* eight floats and two flag bytes (process_frame).                        *)
(*                                                                         *)
(* Python indices are 0-based and TLA+ sequences 1-based: At(s, i) is      *)
(* s[i] and Slice(s, a, b) is s[a:b] of the source.  Time is counted in    *)
(* milliseconds, so min_frame_interval = 0.01 s is 10.                     *)
(*                                                                         *)
(* Further parts model the receiver update_parsed_data of the window, the  *)
(* encoders send_command and send_data, and the connection: run() and      *)
(* close() of the worker thread interleaved, statement by statement, with  *)
(* the close(), wait() and sends of the GUI thread.                        *)
(***************************************************************************)
EXTENDS Integers, Sequences, FiniteSets, TLC

VARIABLES
    scenario,           \* what the device sends on this connection (the model's input)
    pos,                \* how many bytes of it the worker has read so far
    reads,              \* how many reads returned them (the chunks)
    now,                \* time.time(), in ms
    data_buffer,        \* SerialThread.data_buffer
    last_process_time,  \* SerialThread.last_process_time, in ms
    frame_count,        \* SerialThread.frame_count
    raw,                \* the frames emitted on the data_received signal, in order
    parsed,             \* the lists emitted on the parsed_data_received signal, in order
    call,               \* the last parse_buffer call: its buffer at entry and what it did
    arg,                \* the argument of a direct process_frame call (decoder specification)
    total_frames,       \* BoltRemovalMonitor.total_frames
    delivered,          \* how many of the lists in parsed update_parsed_data has handled
    current_time,       \* BoltRemovalMonitor.current_time
    data_buffers,       \* BoltRemovalMonitor.data_buffers: the channel values appended, in order
    self_bolt_type,     \* BoltRemovalMonitor.bolt_type: "None" or the name of the bolt configured
    cmd,                \* the send_command or send_data call being made and its arguments
    written,            \* what serial.write was given, call by call
    result,             \* what the last send_command or send_data returned
    serial,             \* SerialThread.serial: "None" or the "Serial" object
    is_open,            \* serial.is_open of that object
    running,            \* SerialThread.running
    wpc,                \* where the worker thread is in run()
    gpc,                \* where the GUI thread is in the handler it runs
    port_state,         \* the device: "absent" (open fails), "ok" or "faulty" (I/O fails)
    status,             \* the values emitted on the connection_status signal, in order
    stale_reads,        \* how often the worker asked a closed or dropped serial for bytes
    escaped,            \* the threads an exception left a handler of
    ref_buffer,         \* data_buffer of the same worker run without the eviction of lines 126-130
    ref_raw             \* the frames that worker emitted, in order

vars == <<scenario, pos, reads, now, data_buffer, last_process_time, frame_count,
          raw, parsed, call, arg, total_frames, delivered, current_time,
          data_buffers, self_bolt_type, cmd, written, result, serial, is_open, running,
          wpc, gpc, port_state, status, stale_reads, escaped, ref_buffer, ref_raw>>

sinkVars == <<total_frames, delivered, current_time, data_buffers, self_bolt_type>>
cmdVars  == <<cmd, written, result>>
connVars == <<serial, is_open, running, wpc, gpc, port_state, status, stale_reads, escaped>>
refVars  == <<ref_buffer, ref_raw>>

----------------------------------------------------------------------------
(* Program constants *)

MinFrameInterval == 10
OverflowThreshold == 1000
KeepOnOverflow == 200

(* Bounds of the model *)

StartTime == 100      \* time.time() when the connection is opened
TickStep == 5         \* the clock advances in steps of this many ms
MaxTicks == 4         \* the clock is followed for this many steps
NoiseLen == 10        \* length of a short run of noise bytes
PartialLen == 20      \* length of a frame cut short by a transmission fault
BulkFrames == 50      \* frames sent by the device of the bulk scenario
BulkRead == 360       \* bytes a read returns in the scenario of many frames
NoiseRead == 250      \* bytes a read returns in the scenarios of much noise
BulkNoise == 1300     \* noise bytes sent by the device of the noise scenario
MaxFaults == 1        \* channels whose unpack may fault in one frame

----------------------------------------------------------------------------
(* Sequences as Python uses them *)

Min(a, b) == IF a <= b THEN a ELSE b
Max(a, b) == IF a >= b THEN a ELSE b

At(s, i) == s[i + 1]

\* s[a:b] with 0 <= a; b is clamped to len(s) as Python does
Slice(s, a, b) == SubSeq(s, a + 1, Min(b, Len(s)))

\* s[-n:]
LastN(s, n) == SubSeq(s, Max(Len(s) - n, 0) + 1, Len(s))

\* DelFront deleting one element too many
DelFrontOneMore(s, k) == SubSeq(s, Min(k + 1, Len(s)) + 1, Len(s))

\* del s[:k]
DelFront(s, k) == SubSeq(s, Min(k, Len(s)) + 1, Len(s))

Repeat(b, n) == [i \in 1..n |-> b]

----------------------------------------------------------------------------
(* struct.unpack('f', b): the IEEE-754 single whose four bytes are b, least *)
(* significant first (the byte order of the machines the program runs on).  *)
(* A float is [sign, exp, frac]; every NaN reads as the one value NaN,      *)
(* which is all the program can tell of it.                                 *)

NaN == [sign |-> 0, exp |-> 255, frac |-> 4194304]

unpack_f(b) ==
    LET sign == b[4] \div 128
        exp  == (b[4] % 128) * 2 + (b[3] \div 128)
        frac == (b[3] % 128) * 65536 + b[2] * 256 + b[1]
    IN  IF exp = 255 /\ frac # 0 THEN NaN
        ELSE [sign |-> sign, exp |-> exp, frac |-> frac]

\* struct.pack('f', v) for a float that is not NaN, as the device encodes a channel
pack_f(v) ==
    << v.frac % 256,
       (v.frac \div 256) % 256,
       (v.exp % 2) * 128 + (v.frac \div 65536),
       v.sign * 128 + (v.exp \div 2) >>

\* f"{b:02X}" for a byte b
HexDigits == <<"0", "1", "2", "3", "4", "5", "6", "7",
               "8", "9", "A", "B", "C", "D", "E", "F">>

Format02X(b) == << HexDigits[(b \div 16) + 1], HexDigits[(b % 16) + 1] >>

\* A list emitted on parsed_data_received: is_str says whether its first
\* element is a string (an error text), which is how the receiver tells
\* an error from a record.
ErrorList(what, text) == [is_str |-> TRUE, what |-> what, list |-> <<text>>]
RecordList(values)    == [is_str |-> FALSE, what |-> "record", list |-> values]

\* The float of channel i (0-based) of frame; the unpack of a channel in
\* faults raises and the bare except substitutes NaN.
\* ChannelStart one byte late
ChannelStartOffByOne(i) == i * 4 + 1

ChannelStart(i) == i * 4

\* ChannelValue with a fault in any channel spoiling them all
ChannelValueSpoiled(frame, i, faults) ==
    IF faults # {} THEN NaN
    ELSE unpack_f(Slice(frame, ChannelStart(i), ChannelStart(i) + 4))

ChannelValue(frame, i, faults) ==
    LET start_idx == ChannelStart(i)
        end_idx   == start_idx + 4
    IN  IF i \in faults THEN NaN
        ELSE unpack_f(Slice(frame, start_idx, end_idx))

\* TrailerBad with and for or
TrailerBadBoth(frame) == At(frame, 34) # 128 /\ At(frame, 35) # 127

\* frame[34] != 0x80 or frame[35] != 0x7F
TrailerBad(frame) == At(frame, 34) # 128 \/ At(frame, 35) # 127

\* process_frame: what it emits on data_received (raw) and on
\* parsed_data_received (parsed)
process_frame(frame, faults) ==
    IF Len(frame) # 36
    THEN [raw |-> <<>>,
          parsed |-> << ErrorList("frame_length", <<Len(frame)>>) >>]
    ELSE IF TrailerBad(frame)
    THEN [raw |-> <<>>,
          parsed |-> << ErrorList("frame_tail",
                            Format02X(At(frame, 34)) \o <<" ">> \o Format02X(At(frame, 35))) >>]
    ELSE LET floats == [k \in 1..8 |-> ChannelValue(frame, k - 1, faults)]
             flag1  == At(frame, 32)
             flag2  == At(frame, 33)
         IN  [raw |-> << frame >>,
              parsed |-> << RecordList(floats \o <<flag1, flag2>>) >>]

----------------------------------------------------------------------------
(* parse_buffer *)

\* The indices i at which the scan of parse_buffer would cut a frame: the
\* trailer 0x80 0x7F lies at i, i+1 and the frame's 36 bytes lie in the buffer.
\* FrameStart one byte early
FrameStartOneEarly(i) == (i + 1) - 36

\* frame_start = frame_end - 35, with frame_end = i + 1
FrameStart(i) == (i + 1) - 35

IsCut(buf, i) ==
    /\ At(buf, i) = 128
    /\ At(buf, i + 1) = 127
    /\ FrameStart(i) >= 0
    /\ (i + 1) + 1 <= Len(buf)

\* Cuts with the scan ending at the first trailer it meets, accepted or not
CutsStoppingAtFirstTrailer(buf) ==
    LET met == { i \in 0..(Len(buf) - 2) : At(buf, i) = 128 /\ At(buf, i + 1) = 127 }
    IN  { i \in met : IsCut(buf, i) /\ \A j \in met : i <= j }

Cuts(buf) == { i \in 0..(Len(buf) - 2) : IsCut(buf, i) }

\* FirstCut taking the last index the scan would accept
LastCut(buf) == CHOOSE i \in Cuts(buf) : \A j \in Cuts(buf) : i >= j

\* The first of them: the for loop returns at the first index it accepts.
FirstCut(buf) == CHOOSE i \in Cuts(buf) : \A j \in Cuts(buf) : i <= j

\* Evict emptying the buffer
EvictAll(buf) ==
    IF Len(buf) > OverflowThreshold THEN <<>> ELSE buf

\* Evict keeping the first 200 bytes for the last
EvictKeepFirst(buf) ==
    IF Len(buf) > OverflowThreshold
    THEN IF Len(buf) > KeepOnOverflow THEN SubSeq(buf, 1, KeepOnOverflow) ELSE buf
    ELSE buf

\* Evict with >= for >
EvictAtThreshold(buf) ==
    IF Len(buf) >= OverflowThreshold THEN LastN(buf, KeepOnOverflow) ELSE buf

\* The buffer when no frame was found: more than 1000 bytes are cut to the last 200.
Evict(buf) ==
    IF Len(buf) > OverflowThreshold
    THEN IF Len(buf) > KeepOnOverflow THEN LastN(buf, KeepOnOverflow) ELSE buf
    ELSE buf

\* GateOpen turning away a call made exactly min_frame_interval after the last
GateOpenStrict(t, last) == t - last > MinFrameInterval

\* Whether the rate gate lets a call made at time t go on.
GateOpen(t, last) == ~ (t - last < MinFrameInterval)

\* ExtractFrame without the return: the frame that follows is taken in the same call
ExtractFrameAndGoOn(buf, i, count, t) ==
    LET frame == Slice(buf, FrameStart(i), i + 2)
        rest  == DelFront(buf, i + 2)
        out   == process_frame(frame, {})
    IN  IF Cuts(rest) = {}
        THEN [data_buffer |-> rest, last_process_time |-> t, frame_count |-> count + 1,
              raw |-> out.raw, parsed |-> out.parsed, gate |-> TRUE]
        ELSE LET j    == FirstCut(rest)
                 out2 == process_frame(Slice(rest, FrameStart(j), j + 2), {})
             IN  [data_buffer |-> DelFront(rest, j + 2), last_process_time |-> t,
                  frame_count |-> count + 2, raw |-> out.raw \o out2.raw,
                  parsed |-> out.parsed \o out2.parsed, gate |-> TRUE]

\* ExtractFrame deleting the frame alone and keeping what lies before it
ExtractFrameKeepingPrefix(buf, i, count, t) ==
    LET frame == Slice(buf, FrameStart(i), i + 2)
        out   == process_frame(frame, {})
    IN  [data_buffer |-> Slice(buf, 0, FrameStart(i)) \o DelFront(buf, i + 2),
         last_process_time |-> t, frame_count |-> count + 1,
         raw |-> out.raw, parsed |-> out.parsed, gate |-> TRUE]

\* ExtractFrame deleting the 36 bytes that follow the frame with it
ExtractFrameCuttingMore(buf, i, count, t) ==
    LET out == process_frame(Slice(buf, FrameStart(i), i + 2), {})
    IN  [data_buffer |-> DelFront(buf, i + 2 + 36),
         last_process_time |-> t, frame_count |-> count + 1,
         raw |-> out.raw, parsed |-> out.parsed, gate |-> TRUE]

\* The body of the loop at the index i it accepts: the frame is handed to
\* process_frame, the buffer is cut after it, and the call returns.
ExtractFrame(buf, i, count, t) ==
    LET frame_end   == i + 1
        frame_start == FrameStart(i)
        frame       == Slice(buf, frame_start, frame_end + 1)
    IN  IF Len(frame) = 36
        THEN LET out == process_frame(frame, {})
             IN  [data_buffer |-> DelFront(buf, frame_end + 1),
                  last_process_time |-> t, frame_count |-> count + 1,
                  raw |-> out.raw, parsed |-> out.parsed, gate |-> TRUE]
        ELSE [data_buffer |-> DelFront(buf, frame_end + 1),
              last_process_time |-> t, frame_count |-> count,
              raw |-> <<>>, parsed |-> <<>>, gate |-> TRUE]

\* parse_buffer called at time t on buffer buf: the object's fields afterwards,
\* what was emitted, and whether the call went past the gate.
parse_buffer(buf, last, count, t) ==
    IF ~ GateOpen(t, last)
    THEN [data_buffer |-> buf, last_process_time |-> last, frame_count |-> count,
          raw |-> <<>>, parsed |-> <<>>, gate |-> FALSE]
    ELSE IF Len(buf) < 36
    THEN [data_buffer |-> buf, last_process_time |-> t, frame_count |-> count,
          raw |-> <<>>, parsed |-> <<>>, gate |-> TRUE]
    ELSE IF Cuts(buf) # {}
    THEN ExtractFrame(buf, FirstCut(buf), count, t)
    ELSE [data_buffer |-> Evict(buf),
          last_process_time |-> t, frame_count |-> count,
          raw |-> <<>>, parsed |-> <<>>, gate |-> TRUE]

\* parse_buffer without the eviction of lines 126-130: a call that scans and
\* finds no frame leaves the buffer as it is
parse_buffer_keeping(buf, last, count, t) ==
    IF GateOpen(t, last) /\ Len(buf) >= 36 /\ Cuts(buf) = {}
    THEN [data_buffer |-> buf, last_process_time |-> t, frame_count |-> count,
          raw |-> <<>>, parsed |-> <<>>, gate |-> TRUE]
    ELSE parse_buffer(buf, last, count, t)

----------------------------------------------------------------------------
(* What the device sends: the inputs of the model *)

One    == [sign |-> 0, exp |-> 127, frac |-> 0]         \*  1.0
Two    == [sign |-> 0, exp |-> 128, frac |-> 0]         \*  2.0
Minus  == [sign |-> 1, exp |-> 128, frac |-> 2097152]   \* -2.5
PosInf == [sign |-> 0, exp |-> 255, frac |-> 0]         \* +infinity: bytes 00 00 80 7F

\* The 36 bytes of the wire format: eight floats, two flags, the trailer
Frame(values, flag1, flag2) ==
    pack_f(values[1]) \o pack_f(values[2]) \o pack_f(values[3]) \o pack_f(values[4]) \o
    pack_f(values[5]) \o pack_f(values[6]) \o pack_f(values[7]) \o pack_f(values[8]) \o
    <<flag1, flag2, 128, 127>>

FrameOne == Frame([k \in 1..8 |-> One], 1, 2)
FrameTwo == Frame([k \in 1..8 |-> Two], 3, 4)
FrameNeg == Frame([k \in 1..8 |-> Minus], 5, 6)
FrameInf == Frame([k \in 1..8 |-> IF k = 8 THEN PosInf ELSE One], 7, 8)

Noise(n) == Repeat(170, n)

Scenarios == {"noise_frame", "three_frames", "partial_frame", "early_trailer", "inf_frame"}

BulkScenarios == {"bulk_frames", "bulk_noise", "bulk_noise_trailer"}

WireNoiseFrame   == Noise(NoiseLen) \o FrameOne
WireThreeFrames  == FrameOne \o FrameTwo \o FrameNeg
WirePartialFrame == Slice(FrameOne, 0, PartialLen) \o FrameTwo \o FrameNeg
WireEarlyTrailer == <<128, 127>> \o Noise(NoiseLen) \o FrameOne \o FrameTwo
WireInfFrame     == Noise(NoiseLen) \o FrameInf \o FrameTwo
WireBulkFrames   == [i \in 1..(BulkFrames * 36) |-> FrameOne[((i - 1) % 36) + 1]]
WireBulkNoise    == Noise(BulkNoise) \o FrameOne \o FrameTwo
WireBulkNoiseTrailer == <<128, 127>> \o Noise(BulkNoise)

\* Noise of such a length that the read which takes the buffer over 1000
\* bytes ends PartialLen bytes into a frame
CutReads == (OverflowThreshold \div NoiseRead) + 1
WireEvictCut == Noise(CutReads * NoiseRead - PartialLen) \o FrameOne \o FrameTwo

Wire(sc) ==
    CASE sc = "noise_frame"        -> WireNoiseFrame
      [] sc = "three_frames"       -> WireThreeFrames
      [] sc = "partial_frame"      -> WirePartialFrame
      [] sc = "early_trailer"      -> WireEarlyTrailer
      [] sc = "inf_frame"          -> WireInfFrame
      [] sc = "bulk_frames"        -> WireBulkFrames
      [] sc = "bulk_noise"         -> WireBulkNoise
      [] sc = "bulk_noise_trailer" -> WireBulkNoiseTrailer
      [] sc = "one_frame"          -> FrameOne
      [] sc = "evict_cut"          -> WireEvictCut
      [] OTHER                     -> <<>>

\* serial.in_waiting: how many bytes a read may find, of the left that are still to come
InWaiting(sc, left) ==
    IF sc = "bulk_frames" THEN { Min(BulkRead, left) }
    ELSE IF sc \in BulkScenarios \cup {"evict_cut"} THEN { Min(NoiseRead, left) }
    ELSE IF sc = "noise_frame" THEN 1..left
    ELSE IF sc = "three_frames" THEN { n \in {1, 36, 72, left} : n <= left }
    ELSE { n \in {PartialLen, 36, NoiseLen + 36, 72, left} : n <= left }

\* The bytes received so far on the connection
stream == Slice(Wire(scenario), 0, pos)

----------------------------------------------------------------------------
(* The worker *)

NoCall == [pre |-> <<>>, gate |-> FALSE, emitted |-> 0, made |-> FALSE]
NoInput == [values |-> <<>>, flag1 |-> 0, flag2 |-> 0, tail |-> <<>>]
NoArg   == [input |-> NoInput, frame |-> <<>>, faults |-> {}, pending |-> FALSE]

NoCmd   == [op |-> "none", cmd_type |-> 0, bolt_type |-> 0, data |-> <<>>, write_ok |-> TRUE]

\* BoltRemovalMonitor.buffer_size, the most that each of data_buffers keeps
buffer_size == 500

InitFields ==
    /\ data_buffer = <<>>
    /\ last_process_time = 0
    /\ frame_count = 0
    /\ raw = <<>>
    /\ parsed = <<>>
    /\ call = NoCall
    /\ total_frames = 0
    /\ delivered = 0
    /\ current_time = 0
    /\ data_buffers = <<>>
    /\ self_bolt_type = "None"
    /\ written = <<>>
    /\ result = "none"
    /\ stale_reads = 0
    /\ escaped = {}
    /\ ref_buffer = <<>>
    /\ ref_raw = <<>>

\* A SerialThread that was made and not started
NotStarted ==
    /\ serial = "None"
    /\ is_open = FALSE
    /\ running = FALSE
    /\ wpc = "start"
    /\ gpc = "idle"
    /\ port_state = "ok"
    /\ status = <<>>

\* The worker after run() opened the port and came to its loop
Polling ==
    /\ serial = "Serial"
    /\ is_open = TRUE
    /\ running = TRUE
    /\ wpc = "while"
    /\ gpc = "idle"
    /\ port_state = "ok"
    /\ status = <<TRUE>>

Init ==
    /\ scenario \in Scenarios \cup BulkScenarios
    /\ pos = 0
    /\ reads = 0
    /\ now = StartTime
    /\ arg = NoArg
    /\ InitFields
    /\ cmd = NoCmd
    /\ Polling

\* One turn of the loop of run() that finds bytes waiting: read them, append
\* them to data_buffer and call parse_buffer
Read ==
    /\ pos < Len(Wire(scenario))
    /\ \E n \in InWaiting(scenario, Len(Wire(scenario)) - pos) :
          LET data == Slice(Wire(scenario), pos, pos + n)
              buf  == data_buffer \o data
              r    == parse_buffer(buf, last_process_time, frame_count, now)
              ref  == parse_buffer_keeping(ref_buffer \o data, last_process_time,
                                           frame_count, now)
          IN  /\ pos' = pos + n
              /\ reads' = reads + 1
              /\ ref_buffer' = ref.data_buffer
              /\ ref_raw' = ref_raw \o ref.raw
              /\ data_buffer' = r.data_buffer
              /\ last_process_time' = r.last_process_time
              /\ frame_count' = r.frame_count
              /\ raw' = raw \o r.raw
              /\ parsed' = parsed \o r.parsed
              /\ call' = [pre |-> buf, gate |-> r.gate, emitted |-> Len(r.raw), made |-> TRUE]
    /\ UNCHANGED <<scenario, now, arg, sinkVars, cmdVars, connVars>>

\* The clock
Tick ==
    /\ now < StartTime + MaxTicks * TickStep
    /\ now' = now + TickStep
    /\ UNCHANGED <<scenario, pos, reads, data_buffer, last_process_time, frame_count,
                   raw, parsed, call, arg, sinkVars, refVars, cmdVars, connVars>>

Next == Read \/ Tick

Spec == Init /\ [][Next]_vars

----------------------------------------------------------------------------
(* The decoder on its own: process_frame applied to a frame drawn from      *)
(* DecodeInputs, with the unpack of the channels in faults raising, and the *)
(* receiver update_parsed_data handling what it emitted.                    *)

QuietNaN == [sign |-> 0, exp |-> 255, frac |-> 4194304]   \* bytes 00 00 C0 7F

DecodeValues == {Two, Minus, PosInf, QuietNaN}

Trailers == { <<128, 127>>, <<127, 128>>, <<128, 0>>, <<0, 127>> }

\* What the device encoded: one channel differs from 1.0, the flags and the
\* last two bytes vary, and one frame lacks its last byte
DecodeInputs ==
    { [values |-> [k \in 1..8 |-> IF k = c THEN v ELSE One],
       flag1 |-> f1, flag2 |-> f2, tail |-> tr] :
        c \in 1..8, v \in DecodeValues, f1 \in {0, 255}, f2 \in {1, 128}, tr \in Trailers }
    \cup { [values |-> [k \in 1..8 |-> One], flag1 |-> 1, flag2 |-> 2, tail |-> <<128>>] }

InputFrame(in) == SubSeq(Frame(in.values, in.flag1, in.flag2), 1, 34) \o in.tail

FaultSets == { fs \in SUBSET (0..7) : Cardinality(fs) <= MaxFaults }

InitDecode ==
    /\ scenario = "decode"
    /\ pos = 0
    /\ now = StartTime
    /\ reads = 0
    /\ arg \in { [input |-> in, frame |-> InputFrame(in), faults |-> fs, pending |-> TRUE] :
                    in \in DecodeInputs, fs \in FaultSets }
    /\ InitFields
    /\ cmd = NoCmd
    /\ NotStarted

\* process_frame(arg.frame)
Decode ==
    /\ arg.pending
    /\ LET out == process_frame(arg.frame, arg.faults)
       IN  /\ raw' = raw \o out.raw
           /\ parsed' = parsed \o out.parsed
    /\ arg' = [arg EXCEPT !.pending = FALSE]
    /\ UNCHANGED <<scenario, pos, now, reads, data_buffer, last_process_time,
                   frame_count, call, sinkVars, refVars, cmdVars, connVars>>

\* update_parsed_data with = for += on total_frames
update_parsed_data_assigning(data_list, total) ==
    IF Len(data_list.list) = 0 THEN total
    ELSE IF data_list.is_str THEN total
    ELSE IF Len(data_list.list) >= 10 THEN 1
    ELSE total

\* update_parsed_data(data_list): total_frames afterwards
update_parsed_data(data_list, total) ==
    IF Len(data_list.list) = 0 THEN total
    ELSE IF data_list.is_str THEN total
    ELSE IF Len(data_list.list) >= 10 THEN total + 1
    ELSE total

\* IsRecordList with > for >=
IsRecordListOverTen(data_list) ==
    /\ Len(data_list.list) # 0
    /\ ~ data_list.is_str
    /\ Len(data_list.list) > 10

\* Whether update_parsed_data takes data_list for a record: not empty, not an
\* error, ten elements or more
IsRecordList(data_list) ==
    /\ Len(data_list.list) # 0
    /\ ~ data_list.is_str
    /\ Len(data_list.list) >= 10

\* The GUI thread handles the next list emitted on parsed_data_received: the
\* signal is queued from the worker to the GUI thread, first emitted first handled
Deliver ==
    /\ delivered < Len(parsed)
    /\ LET data_list == parsed[delivered + 1]
       IN  /\ total_frames' = update_parsed_data(data_list, total_frames)
           /\ IF IsRecordList(data_list)
              THEN /\ data_buffers' = LastN(Append(data_buffers, SubSeq(data_list.list, 1, 8)),
                                            buffer_size)
                   /\ current_time' = current_time + 1
              ELSE UNCHANGED <<data_buffers, current_time>>
    /\ delivered' = delivered + 1
    /\ UNCHANGED <<scenario, pos, now, reads, data_buffer, last_process_time,
                   frame_count, raw, parsed, call, arg, self_bolt_type, cmdVars, connVars,
                   refVars>>

NextDecode == Decode \/ Deliver

SpecDecode == InitDecode /\ [][NextDecode]_vars

----------------------------------------------------------------------------
(* The worker and the receiver together: the worker reads and emits while   *)
(* the GUI thread handles, one by one, the lists queued for it.             *)

SinkScenarios == {"three_frames", "partial_frame", "inf_frame", "bulk_frames"}

InitSink ==
    /\ scenario \in SinkScenarios
    /\ pos = 0
    /\ reads = 0
    /\ now = StartTime
    /\ arg = NoArg
    /\ InitFields
    /\ cmd = NoCmd
    /\ Polling

NextSink == Read \/ Tick \/ Deliver

SpecSink == InitSink /\ [][NextSink]_vars

----------------------------------------------------------------------------
(* The claims *)

Trailer(s, i) == At(s, i) = 128 /\ At(s, i + 1) = 127

\* The indices of s at which 0x80 0x7F lies
TrailerAt(s) == { i \in 0..(Len(s) - 2) : Trailer(s, i) }

AtEnd == pos = Len(Wire(scenario))

\* C1: chunking does not affect framing: whatever chunks the stream received
\* so far came in, the frames emitted are those that the same stream, fed as
\* one chunk to a new synchronizer, makes it emit.
C1_ChunkingDoesNotAffectFraming ==
    raw = parse_buffer(stream, 0, 0, now).raw

\* C2: the length of data_buffer never exceeds a fixed ceiling: the overflow
\* threshold plus the most a read can add.
BufferCeiling == OverflowThreshold + Max(BulkRead, NoiseRead)

C2_BufferNeverExceedsCeiling ==
    Len(data_buffer) <= BufferCeiling

\* The garbage that begins each scenario, and the well-formed frames after it
GarbageLen(sc) ==
    CASE sc = "noise_frame"        -> NoiseLen
      [] sc = "three_frames"       -> 0
      [] sc = "partial_frame"      -> PartialLen
      [] sc = "early_trailer"      -> 2 + NoiseLen
      [] sc = "inf_frame"          -> NoiseLen
      [] sc = "bulk_frames"        -> 0
      [] sc = "bulk_noise"         -> BulkNoise
      [] sc = "bulk_noise_trailer" -> 2 + BulkNoise
      [] OTHER                     -> 0

SentFrames(sc) ==
    [k \in 1..((Len(Wire(sc)) - GarbageLen(sc)) \div 36) |->
        Slice(Wire(sc), GarbageLen(sc) + 36 * (k - 1), GarbageLen(sc) + 36 * k)]

\* The scenario is garbage followed by well-formed frames and nothing else
GarbageThenFrames(sc) ==
    /\ (Len(Wire(sc)) - GarbageLen(sc)) % 36 = 0
    /\ \A k \in 1..Len(SentFrames(sc)) : Trailer(SentFrames(sc)[k], 34)

\* Enough sync cycles have run: the whole stream was read and the buffer
\* holds less than a frame
WorkedOff == AtEnd /\ Len(data_buffer) < 36

\* C3 as stated: for any garbage followed by well-formed frames, once enough
\* sync cycles have run every one of those frames has been emitted, unaltered
\* and in order (after whatever was cut out of the garbage).
C3_SyncNeverLost ==
    (scenario \in Scenarios \cup BulkScenarios /\ GarbageThenFrames(scenario) /\ WorkedOff)
        => /\ Len(raw) >= Len(SentFrames(scenario))
           /\ LastN(raw, Len(SentFrames(scenario))) = SentFrames(scenario)

\* From the last garbage byte on, 0x80 0x7F lies only at the end of a frame
TrailerOnlyEndsFrames(sc) ==
    \A i \in TrailerAt(Wire(sc)) :
        i >= GarbageLen(sc) - 1 => (i >= GarbageLen(sc) /\ (i - GarbageLen(sc)) % 36 = 34)

\* How many of the sent frames have been emitted: the longest run of them that ends raw
EmittedOfSent(sc) ==
    LET ks == { k \in 0..Min(Len(raw), Len(SentFrames(sc))) :
                    LastN(raw, k) = SubSeq(SentFrames(sc), 1, k) }
    IN  CHOOSE k \in ks : \A j \in ks : j <= k

\* Where in the wire the first sent frame not yet emitted begins
NextFrameAt(sc) == GarbageLen(sc) + 36 * EmittedOfSent(sc)

\* C3 as amended: when, from the last garbage byte on, 0x80 0x7F lies only at
\* the end of a frame, the frames received and not yet emitted lie whole and
\* in order at the end of the buffer, and once enough sync cycles have run
\* every one has been emitted, unaltered and in order.
C3_SyncKeptWhenTrailerOnlyEndsFrames ==
    (scenario \in Scenarios \cup BulkScenarios
        /\ GarbageThenFrames(scenario) /\ TrailerOnlyEndsFrames(scenario))
        => /\ pos >= NextFrameAt(scenario) =>
                /\ Len(data_buffer) >= pos - NextFrameAt(scenario)
                /\ LastN(data_buffer, pos - NextFrameAt(scenario))
                      = Slice(Wire(scenario), NextFrameAt(scenario), pos)
           /\ WorkedOff =>
                /\ Len(raw) >= Len(SentFrames(scenario))
                /\ LastN(raw, Len(SentFrames(scenario))) = SentFrames(scenario)

\* C3 witness: garbage was received, then frames, and all of them were emitted
C3_Witness ==
    /\ scenario = "partial_frame"
    /\ WorkedOff
    /\ raw = SentFrames(scenario)
    /\ Len(raw) = 2

\* The last parse_buffer call went past the rate gate
Scanned == call.made /\ call.gate

Noisy(buf) == Len(buf) > 36

\* buf is noise followed by one well-formed frame: its last 36 bytes end in
\* the trailer, and the bytes before them are noise, holding no trailer
NoiseThenFrame(buf) ==
    /\ Noisy(buf)
    /\ Trailer(buf, Len(buf) - 2)
    /\ TrailerAt(Slice(buf, 0, Len(buf) - 36)) = {}

\* The call emitted the last 36 bytes of its buffer and left nothing of it
EmittedItsLastFrame ==
    /\ call.emitted = 1
    /\ Len(raw) >= 1
    /\ raw[Len(raw)] = LastN(call.pre, 36)
    /\ data_buffer = <<>>

\* C4 as stated: a parse_buffer call that scans a buffer of noise followed by
\* one well-formed frame emits exactly that frame and removes all the noise.
C4_NoiseThenFrameEmitted ==
    (Scanned /\ NoiseThenFrame(call.pre)) => EmittedItsLastFrame

\* C4 as amended: a parse_buffer call that goes past the rate gate, on a
\* buffer of noise followed by one well-formed frame in which 0x80 0x7F lies
\* nowhere but at the frame's end, emits exactly that frame and leaves the
\* buffer empty.
C4_NoiseThenFrameEmittedWhenTrailerUnique ==
    (Scanned /\ NoiseThenFrame(call.pre) /\ TrailerAt(call.pre) = {Len(call.pre) - 2})
        => EmittedItsLastFrame

\* C4 witness: such a call was made on ten noise bytes and a frame
C4_Witness ==
    /\ Scanned
    /\ call.pre = WireNoiseFrame
    /\ TrailerAt(call.pre) = {Len(call.pre) - 2}
    /\ raw = <<FrameOne>>
    /\ data_buffer = <<>>

\* The record of FrameOne: eight times 1.0 and the flags 1, 2
RecordOfFrameOne == RecordList([k \in 1..8 |-> One] \o <<1, 2>>)

\* C5: ten noise bytes and a well-formed frame ingested as two chunks, split
\* at any offset: after both ingests exactly one record has been emitted,
\* with the frame's channel values and flags.
C5_TwoChunksOneRecord ==
    (scenario = "noise_frame" /\ AtEnd /\ reads = 2) => parsed = <<RecordOfFrameOne>>

\* No index of buf that has at least 34 bytes before it holds the trailer
NoValidTrailer(buf) == \A i \in TrailerAt(buf) : i < 34

\* C6: a parse_buffer call that scans a buffer of more than 1000 bytes with no
\* valid trailer leaves exactly the buffer's last 200 bytes and emits no
\* frame; a buffer of 1000 bytes or fewer with no valid trailer is left as it is.
C6_OverflowEviction ==
    (Scanned /\ NoValidTrailer(call.pre))
        => /\ call.emitted = 0
           /\ Len(call.pre) > 1000 =>
                /\ Len(data_buffer) = 200
                /\ data_buffer = SubSeq(call.pre, Len(call.pre) - 199, Len(call.pre))
           /\ Len(call.pre) <= 1000 => data_buffer = call.pre

\* C6 witness: a call scanned more than 1000 bytes with no valid trailer and
\* left 200; and a buffer of exactly 1000 bytes was scanned and left alone
C6_Witness ==
    /\ Scanned
    /\ NoValidTrailer(call.pre)
    /\ Len(call.pre) > 1000
    /\ Len(data_buffer) = 200

C6_WitnessAtThreshold ==
    /\ Scanned
    /\ NoValidTrailer(call.pre)
    /\ Len(call.pre) = 1000
    /\ data_buffer = call.pre

\* C7: one parse_buffer call emits at most one frame: in a step the worker
\* takes, frame_count and the frames and lists emitted grow by at most one.
C7_AtMostOneFramePerCall ==
    [][ /\ frame_count' - frame_count <= 1
        /\ Len(raw') - Len(raw) <= 1
        /\ Len(parsed') - Len(parsed) <= 1 ]_vars

\* C7 witness: a call found several complete frames in its buffer and emitted one
C7_Witness ==
    /\ Scanned
    /\ Cardinality({ i \in TrailerAt(call.pre) : i % 36 = 34 }) >= 2
    /\ call.pre = Slice(WireThreeFrames, 0, Len(call.pre))
    /\ call.emitted = 1
    /\ frame_count = 1

\* process_frame has returned from a call on 36 bytes that end in the trailer
DecodedGoodFrame ==
    /\ scenario = "decode"
    /\ ~ arg.pending
    /\ Len(arg.frame) = 36
    /\ arg.input.tail = <<128, 127>>

\* What a channel encoded as v decodes to (every NaN reads as NaN)
IsNaN(v) == v.exp = 255 /\ v.frac # 0

Decoded(v) == IF IsNaN(v) THEN NaN ELSE v

\* C8: for a 36-byte frame with the correct trailer, process_frame emits one
\* record of exactly 10 fields: field i (i in 0..7) is the float that bytes
\* 4i..4i+3 hold, which is the value the device encoded in channel i whatever
\* the other channels and the flags hold, and fields 8 and 9 are bytes 32 and 33.
C8_DecodeYieldsChannelsAndFlags ==
    (DecodedGoodFrame /\ arg.faults = {})
        => /\ raw = <<arg.frame>>
           /\ Len(parsed) = 1
           /\ ~ parsed[1].is_str
           /\ Len(parsed[1].list) = 10
           /\ \A i \in 0..7 :
                /\ parsed[1].list[i + 1]
                      = unpack_f(<<arg.frame[4 * i + 1], arg.frame[4 * i + 2],
                                   arg.frame[4 * i + 3], arg.frame[4 * i + 4]>>)
                /\ parsed[1].list[i + 1] = Decoded(arg.input.values[i + 1])
           /\ parsed[1].list[9] = arg.frame[33]
           /\ parsed[1].list[10] = arg.frame[34]
           /\ parsed[1].list[9] = arg.input.flag1
           /\ parsed[1].list[10] = arg.input.flag2

\* C8 witness: a frame whose channel 3 holds -2.5 and whose flags are 255, 128 was decoded
C8_Witness ==
    /\ DecodedGoodFrame
    /\ arg.faults = {}
    /\ arg.input.values[4] = Minus
    /\ arg.input.flag1 = 255
    /\ arg.input.flag2 = 128
    /\ Len(parsed) = 1
    /\ parsed[1].list[4] = Minus
    /\ parsed[1].list[1] = One

\* C9: a fault in the unpack of some channels does not abort the record: the
\* record is emitted with NaN in those channels, the other channels and both
\* flags being what process_frame yields for the same frame without a fault.
C9_ChannelFaultYieldsNaN ==
    (DecodedGoodFrame /\ arg.faults # {})
        => /\ raw = <<arg.frame>>
           /\ Len(parsed) = 1
           /\ ~ parsed[1].is_str
           /\ Len(parsed[1].list) = 10
           /\ \A i \in 0..7 :
                parsed[1].list[i + 1] =
                    IF i \in arg.faults THEN NaN
                    ELSE process_frame(arg.frame, {}).parsed[1].list[i + 1]
           /\ parsed[1].list[9] = arg.input.flag1
           /\ parsed[1].list[10] = arg.input.flag2

\* C9 witness: the unpack of channel 2 faulted in a frame whose channel 5
\* holds 2.0, and the record was emitted and counted by the receiver
C9_Witness ==
    /\ DecodedGoodFrame
    /\ arg.faults = {2}
    /\ arg.input.values[6] = Two
    /\ Len(parsed) = 1
    /\ parsed[1].list[3] = NaN
    /\ parsed[1].list[6] = Two
    /\ delivered = 1
    /\ total_frames = 1

\* The byte that two hexadecimal digits denote
HexValue(d) == CHOOSE k \in 0..15 : HexDigits[k + 1] = d

ByteOfHex(text, at) == 16 * HexValue(text[at]) + HexValue(text[at + 1])

\* process_frame has returned from a call on 36 bytes that do not end in the trailer
DecodedBadTrailer ==
    /\ scenario = "decode"
    /\ ~ arg.pending
    /\ Len(arg.frame) = 36
    /\ arg.input.tail # <<128, 127>>

\* C10: given 36 bytes whose bytes 34 and 35 are not 0x80 0x7F, process_frame
\* emits nothing on data_received and one error on parsed_data_received, whose
\* text holds those two bytes in hexadecimal; the receiver counts no record for it.
C10_BadTrailerReported ==
    DecodedBadTrailer
        => /\ raw = <<>>
           /\ Len(parsed) = 1
           /\ parsed[1].is_str
           /\ parsed[1].what = "frame_tail"
           /\ Len(parsed[1].list) = 1
           /\ Len(parsed[1].list[1]) = 5
           /\ ByteOfHex(parsed[1].list[1], 1) = arg.frame[35]
           /\ ByteOfHex(parsed[1].list[1], 4) = arg.frame[36]
           /\ total_frames = 0

\* C10 witness: a frame ending 0x80 0x00 was reported and the receiver handled the report
C10_Witness ==
    /\ DecodedBadTrailer
    /\ arg.input.tail = <<128, 0>>
    /\ Len(parsed) = 1
    /\ parsed[1].list[1] = <<"8", "0", " ", "0", "0">>
    /\ delivered = 1
    /\ total_frames = 0

----------------------------------------------------------------------------
(* The rate gate of parse_buffer *)

\* A step in which run() read a chunk and called parse_buffer
ParseBufferCalled == reads' = reads + 1

\* C14: a parse_buffer call goes on to scan, and sets last_process_time to
\* the time of the call, only if at least min_frame_interval (10 ms) has gone
\* by since last_process_time; a call turned away leaves last_process_time,
\* the buffer it was given and frame_count as they are and emits nothing; so a
\* call that scans comes at least min_frame_interval after the one before it.
C14_GovernorGatesCalls ==
    [][ParseBufferCalled =>
          IF now - last_process_time >= MinFrameInterval
          THEN /\ call'.gate
               /\ last_process_time' = now
          ELSE /\ ~ call'.gate
               /\ last_process_time' = last_process_time
               /\ data_buffer' = call'.pre
               /\ frame_count' = frame_count
               /\ raw' = raw
               /\ parsed' = parsed]_vars

\* C14 witness: a call that came 5 ms after one that scanned was turned away
\* with a whole frame in its buffer
C14_Witness ==
    /\ call.made
    /\ ~ call.gate
    /\ last_process_time > 0
    /\ now - last_process_time = TickStep
    /\ Len(call.pre) >= 36
    /\ data_buffer = call.pre

----------------------------------------------------------------------------
(* From the frames extracted to the receiver *)

\* The eight channel values that the bytes of a frame encode
ChannelsOf(frame) == [c \in 1..8 |-> unpack_f(Slice(frame, 4 * (c - 1), 4 * c))]

\* C15: the records reach update_parsed_data in the order in which the frames
\* were extracted, one record for each frame: the k-th list emitted is the
\* record of the k-th frame extracted, and the k-th values the receiver stored
\* are the channels of the k-th frame, for every list it has handled.
C15_RecordsInExtractionOrder ==
    /\ Len(parsed) = Len(raw)
    /\ Len(data_buffers) = delivered
    /\ \A k \in 1..Len(raw) :
          /\ ~ parsed[k].is_str
          /\ SubSeq(parsed[k].list, 1, 8) = ChannelsOf(raw[k])
    /\ \A k \in 1..delivered : data_buffers[k] = ChannelsOf(raw[k])

\* C15 witness: three different frames were extracted and the receiver has
\* handled the records of the first two while the third is still queued
C15_Witness ==
    /\ scenario = "three_frames"
    /\ raw = <<FrameOne, FrameTwo, FrameNeg>>
    /\ delivered = 2
    /\ data_buffers = <<ChannelsOf(FrameOne), ChannelsOf(FrameTwo)>>

\* A step in which update_parsed_data handled a record
RecordHandled == delivered' = delivered + 1 /\ IsRecordList(parsed[delivered + 1])

\* C16: frame_count grows by one with each frame emitted and by nothing else;
\* total_frames and current_time of the receiver grow by one with each record
\* it handles and change in no other step: they never fall or start again.
C16_IndicesGrowByOne ==
    [][/\ frame_count' - frame_count = Len(raw') - Len(raw)
       /\ total_frames' - total_frames = (IF RecordHandled THEN 1 ELSE 0)
       /\ current_time' - current_time = (IF RecordHandled THEN 1 ELSE 0)]_vars

\* C16 witness: the worker has emitted its third frame and the receiver has
\* counted two records
C16_Witness ==
    /\ frame_count = 3
    /\ Len(raw) = 3
    /\ delivered = 2
    /\ total_frames = 2
    /\ current_time = 2

----------------------------------------------------------------------------
(* send_command and send_data.  A text is a sequence of characters; the     *)
(* character written e_acute stands for U+00E9, two bytes in UTF-8.         *)

None == -1     \* bolt_type when send_command is called without it

HexDigitsLower == <<"0", "1", "2", "3", "4", "5", "6", "7",
                    "8", "9", "a", "b", "c", "d", "e", "f">>

\* c in "0123456789ABCDEFabcdef"
IsHexChar(c) == \E k \in 1..16 : c = HexDigits[k] \/ c = HexDigitsLower[k]

\* all(c in "0123456789ABCDEFabcdef" for c in text)
AllHex(text) == \A k \in 1..Len(text) : IsHexChar(text[k])

\* ' ' in text
HasSpace(text) == \E k \in 1..Len(text) : text[k] = " "

\* text.replace(' ', '')
RemoveSpaces(text) == SelectSeq(text, LAMBDA c : c # " ")

HexCharValue(c) == CHOOSE v \in 0..15 : c = HexDigits[v + 1] \/ c = HexDigitsLower[v + 1]

\* bytes.fromhex(hex_str): a byte for every two digits; it raises ValueError
\* on a character that is no hexadecimal digit and on a digit left without its pair
fromhex(hex_str) ==
    IF AllHex(hex_str) /\ Len(hex_str) % 2 = 0
    THEN [raised |-> FALSE,
          bytes  |-> [k \in 1..(Len(hex_str) \div 2) |->
                        16 * HexCharValue(hex_str[2 * k - 1]) + HexCharValue(hex_str[2 * k])]]
    ELSE [raised |-> TRUE, bytes |-> <<>>]

\* The UTF-8 bytes of a character
Utf8Of(c) ==
    CASE c = " "       -> <<32>>
      [] c = "0"       -> <<48>>
      [] c = "1"       -> <<49>>
      [] c = "4"       -> <<52>>
      [] c = "A"       -> <<65>>
      [] c = "f"       -> <<102>>
      [] c = "h"       -> <<104>>
      [] c = "e_acute" -> <<195, 169>>

\* text.encode('utf-8')
RECURSIVE encode(_)
encode(text) == IF text = <<>> THEN <<>> ELSE Utf8Of(Head(text)) \o encode(Tail(text))

\* The condition of line 173: the text goes the hexadecimal way
TakenForHex(data) == HasSpace(data) \/ AllHex(RemoveSpaces(data))

\* The try block of send_data up to the write: the bytes to write, or raised
data_bytes_of(data) ==
    IF TakenForHex(data)
    THEN LET hex_str == RemoveSpaces(data)
         IN  fromhex(IF Len(hex_str) % 2 # 0 THEN <<"0">> \o hex_str ELSE hex_str)
    ELSE [raised |-> FALSE, bytes |-> encode(data)]

\* BoltTypeValid letting every code from 0x04 on through
BoltTypeFromFour(bolt_type) == bolt_type >= 4

\* bolt_type in [0x04, 0x05, 0x06]
BoltTypeValid(bolt_type) == bolt_type \in {4, 5, 6}

\* CommandBytes with the two bytes the other way round
CommandBytesSwapped(cmd_type, bolt_type) == <<bolt_type, cmd_type>>

\* bytes([cmd_type, bolt_type])
CommandBytes(cmd_type, bolt_type) == <<cmd_type, bolt_type>>

\* The try block of send_command up to the write: whether it writes, and what
command_bytes_of(cmd_type, bolt_type) ==
    IF cmd_type = 1
    THEN IF BoltTypeValid(bolt_type)
         THEN [writes |-> TRUE, bytes |-> CommandBytes(cmd_type, bolt_type)]
         ELSE [writes |-> FALSE, bytes |-> <<>>]
    ELSE IF cmd_type = 2
    THEN [writes |-> TRUE, bytes |-> <<cmd_type>>]
    ELSE [writes |-> FALSE, bytes |-> <<>>]

\* self.serial.write(data_bytes) inside the try of either method: what the
\* port was given, what the method returns and what it emits; a write that
\* raises is caught and reported under the name what
Write(data_bytes, write_ok, what) ==
    IF write_ok
    THEN [written |-> <<data_bytes>>, result |-> "True", parsed |-> <<>>]
    ELSE [written |-> <<>>, result |-> "False", parsed |-> <<ErrorList(what, <<>>)>>]

NotSent == [written |-> <<>>, result |-> "False", parsed |-> <<>>]

\* send_data(data) with self.serial being ser and its is_open being open
send_data(data, ser, open, write_ok) ==
    IF ser # "None" /\ open
    THEN LET b == data_bytes_of(data)
         IN  IF b.raised
             THEN [written |-> <<>>, result |-> "False",
                   parsed |-> <<ErrorList("send_error", <<>>)>>]
             ELSE Write(b.bytes, write_ok, "send_error")
    ELSE NotSent

\* send_command(cmd_type, bolt_type) with self.serial being ser and its is_open being open
send_command(cmd_type, bolt_type, ser, open, write_ok) ==
    IF ser # "None" /\ open
    THEN LET b == command_bytes_of(cmd_type, bolt_type)
         IN  IF b.writes
             THEN Write(b.bytes, write_ok, "command_error")
             ELSE NotSent
    ELSE NotSent

\* The two methods on their own: one call, with its arguments and the state
\* of the port drawn at the start.

MaxTextLen == 3
MaxCode == 7

Chars == {"0", "1", "4", "A", "f", "h", " ", "e_acute"}

Texts == UNION { [1..n -> Chars] : n \in 0..MaxTextLen }
            \cup { <<"0", "1", " ", "0", "4">> }

CommandCalls ==
    { [op |-> "send_command", cmd_type |-> c, bolt_type |-> b, data |-> <<>>, write_ok |-> w] :
        c \in 0..3, b \in {None} \cup 3..MaxCode, w \in BOOLEAN }

DataCalls ==
    { [op |-> "send_data", cmd_type |-> 0, bolt_type |-> None, data |-> t, write_ok |-> w] :
        t \in Texts, w \in BOOLEAN }

\* close() has closed the port and not yet dropped it
Closing ==
    /\ serial = "Serial"
    /\ is_open = FALSE
    /\ running = FALSE
    /\ wpc = "while"
    /\ gpc = "idle"
    /\ port_state = "ok"
    /\ status = <<TRUE>>

InitCmd ==
    /\ scenario = "command"
    /\ pos = 0
    /\ reads = 0
    /\ now = StartTime
    /\ arg = NoArg
    /\ InitFields
    /\ cmd \in CommandCalls \cup DataCalls
    /\ NotStarted \/ Polling \/ Closing

\* What a call leaves behind
Returned(out) ==
    /\ written' = written \o out.written
    /\ result' = out.result
    /\ parsed' = parsed \o out.parsed
    /\ UNCHANGED <<scenario, pos, reads, now, data_buffer, last_process_time, frame_count,
                   raw, call, arg, sinkVars, refVars, cmd, connVars>>

SendCommand ==
    /\ cmd.op = "send_command"
    /\ result = "none"
    /\ Returned(send_command(cmd.cmd_type, cmd.bolt_type, serial, is_open, cmd.write_ok))

SendData ==
    /\ cmd.op = "send_data"
    /\ result = "none"
    /\ Returned(send_data(cmd.data, serial, is_open, cmd.write_ok))

NextCmd == SendCommand \/ SendData

SpecCmd == InitCmd /\ [][NextCmd]_vars

----------------------------------------------------------------------------
(* What send_command and send_data write *)

\* The call drawn was made on a port that is open and takes what is written to it
SentOnOpenPort(op) ==
    /\ scenario = "command"
    /\ cmd.op = op
    /\ result # "none"
    /\ serial = "Serial"
    /\ is_open
    /\ cmd.write_ok

\* C11: on an open port send_command(0x01, bolt) with bolt 0x04, 0x05 or 0x06
\* writes the two bytes 0x01, bolt and send_command(0x02) writes the one byte
\* 0x02; each writes once and returns True.
C11_CommandBytesWritten ==
    SentOnOpenPort("send_command") =>
        /\ (cmd.cmd_type = 1 /\ cmd.bolt_type \in {4, 5, 6})
              => written = << <<1, cmd.bolt_type>> >> /\ result = "True"
        /\ cmd.cmd_type = 2
              => written = << <<2>> >> /\ result = "True"

\* C11 witness: send_command(0x01, 0x05) wrote 01 05 and returned True
C11_Witness ==
    /\ SentOnOpenPort("send_command")
    /\ cmd.cmd_type = 1
    /\ cmd.bolt_type = 5
    /\ written = << <<1, 5>> >>
    /\ result = "True"

\* The bytes that the hexadecimal digits of text denote, two by two, with a
\* 0 put in front of an odd number of them
HexPairs(text) ==
    LET digits == IF Len(text) % 2 = 1 THEN <<"0">> \o text ELSE text
    IN  [k \in 1..(Len(digits) \div 2) |->
            16 * HexCharValue(digits[2 * k - 1]) + HexCharValue(digits[2 * k])]

\* C12: send_data writes, for a text that with its spaces removed is made of
\* hexadecimal digits only, the bytes of its pairs of digits (a 0 put in front
\* of an odd number of them), and for every other text its UTF-8 bytes.
C12_DataBytesWritten ==
    SentOnOpenPort("send_data") =>
        IF AllHex(RemoveSpaces(cmd.data))
        THEN written = << HexPairs(RemoveSpaces(cmd.data)) >> /\ result = "True"
        ELSE written = << encode(cmd.data) >> /\ result = "True"

\* The call drawn has returned
Sent(op) ==
    /\ scenario = "command"
    /\ cmd.op = op
    /\ result # "none"

\* A text that is taken for hexadecimal and is not: it holds a space and a
\* character that is no hexadecimal digit
MalformedHex(text) == HasSpace(text) /\ ~ AllHex(RemoveSpaces(text))

\* C13: send_command with a bolt code other than 0x04, 0x05, 0x06 or with a
\* command type other than 0x01, 0x02, and send_data with malformed
\* hexadecimal text, return False and write no byte, whatever the port's state.
C13_EncodeErrorWritesNothing ==
    /\ (Sent("send_command") /\ cmd.cmd_type = 1 /\ cmd.bolt_type \notin {4, 5, 6})
          => result = "False" /\ written = <<>>
    /\ (Sent("send_command") /\ cmd.cmd_type \notin {1, 2})
          => result = "False" /\ written = <<>>
    /\ (Sent("send_data") /\ MalformedHex(cmd.data))
          => result = "False" /\ written = <<>>

\* C13 witness: on an open port that takes writes, send_command(0x01, 0x07)
\* returned False and wrote nothing
C13_Witness ==
    /\ SentOnOpenPort("send_command")
    /\ cmd.cmd_type = 1
    /\ cmd.bolt_type = 7
    /\ result = "False"
    /\ written = <<>>

----------------------------------------------------------------------------
(* The connection: the worker thread in run(), statement by statement, and  *)
(* the GUI thread calling close(), wait(), send_command() and send_data()   *)
(* on the same SerialThread.  Each read or write of self.serial and of      *)
(* self.running is a step of its own, so the two threads interleave between *)
(* the test of self.serial and its use.  wpc and gpc name the statement a   *)
(* thread is to execute next.                                               *)

MaxReports == 3

\* The read-error lists emitted so far
ReadErrors == Cardinality({ k \in 1..Len(parsed) : parsed[k].what = "read_error" })

\* QThread.isRunning()
isRunning == wpc \notin {"done", "died"}

\* One statement of close(), executed by the thread at pc: the fields
\* afterwards, where the thread goes (after, when close returns) and whether
\* an AttributeError on None left close()
close(pc, after) ==
    CASE pc = "close_running" ->
           [pc |-> "close_test", running |-> FALSE, serial |-> serial, is_open |-> is_open,
            raised |-> FALSE]
      [] pc = "close_test" ->
           [pc |-> IF serial = "None" THEN after ELSE "close_is_open",
            running |-> running, serial |-> serial, is_open |-> is_open, raised |-> FALSE]
      [] pc = "close_is_open" ->
           [pc |-> IF serial = "None" THEN "raised"
                   ELSE IF is_open THEN "close_close" ELSE after,
            running |-> running, serial |-> serial, is_open |-> is_open,
            raised |-> serial = "None"]
      [] pc = "close_close" ->
           [pc |-> IF serial = "None" THEN "raised" ELSE "close_none",
            running |-> running, serial |-> serial,
            is_open |-> IF serial = "None" THEN is_open ELSE FALSE,
            raised |-> serial = "None"]
      [] pc = "close_none" ->
           [pc |-> after, running |-> running, serial |-> "None", is_open |-> is_open,
            raised |-> FALSE]

ClosePcs == {"close_running", "close_test", "close_is_open", "close_close", "close_none"}

InitConn ==
    /\ scenario = "one_frame"
    /\ pos = 0
    /\ reads = 0
    /\ now = StartTime
    /\ arg = NoArg
    /\ InitFields
    /\ cmd = NoCmd
    /\ serial = "None"
    /\ is_open = FALSE
    /\ running = FALSE
    /\ wpc = "start"
    /\ gpc = "idle"
    /\ port_state \in {"ok", "absent"}
    /\ status = <<>>

\* What the steps of the worker outside its reads leave alone
WorkerKeeps ==
    UNCHANGED <<scenario, pos, reads, now, data_buffer, last_process_time, frame_count,
                raw, call, arg, sinkVars, refVars, cmdVars, gpc, port_state>>

\* serial.Serial(...) of line 56: the port opens, or the call raises
WOpen ==
    /\ wpc = "start"
    /\ IF port_state = "absent"
       THEN /\ wpc' = "except_outer"
            /\ UNCHANGED <<serial, is_open>>
       ELSE /\ wpc' = "emit_status"
            /\ serial' = "Serial"
            /\ is_open' = TRUE
    /\ UNCHANGED <<running, status, parsed, stale_reads, escaped>>
    /\ WorkerKeeps

\* connection_status.emit(True) of line 64
WEmitStatus ==
    /\ wpc = "emit_status"
    /\ status' = Append(status, TRUE)
    /\ wpc' = "set_running"
    /\ UNCHANGED <<serial, is_open, running, parsed, stale_reads, escaped>>
    /\ WorkerKeeps

\* self.running = True of line 65
WSetRunning ==
    /\ wpc = "set_running"
    /\ running' = TRUE
    /\ wpc' = "set_buffer_size"
    /\ UNCHANGED <<serial, is_open, status, parsed, stale_reads, escaped>>
    /\ WorkerKeeps

\* self.serial.set_buffer_size(...) of line 68: AttributeError when
\* self.serial is None by now; on the open port the call returns, or it raises
\* (the Serial class of the platform has no such method, the driver refuses)
WSetBufferSize ==
    /\ wpc = "set_buffer_size"
    /\ wpc' \in IF serial = "None" THEN {"except_outer"} ELSE {"while", "except_outer"}
    /\ UNCHANGED <<serial, is_open, running, status, parsed, stale_reads, escaped>>
    /\ WorkerKeeps

\* while self.running of line 70
WWhile ==
    /\ wpc = "while"
    /\ wpc' = IF running THEN "in_waiting" ELSE "close_running"
    /\ UNCHANGED <<serial, is_open, running, status, parsed, stale_reads, escaped>>
    /\ WorkerKeeps

\* self.serial is None or the port it names has been closed
Released == serial = "None" \/ ~ is_open

\* An attribute or method of self.serial used in the loop raises: on None, on
\* a closed port, on a device that fails
ReadRaises == Released \/ port_state = "faulty"

\* The except of line 79: the error is emitted and the loop goes on
ReadErrorCaught ==
    /\ ReadErrors < MaxReports
    /\ parsed' = Append(parsed, ErrorList("read_error", <<>>))
    /\ stale_reads' = IF Released THEN stale_reads + 1 ELSE stale_reads
    /\ wpc' = "while"

\* if self.serial.in_waiting of line 73: nothing waiting, something waiting, or it raises
WInWaiting ==
    /\ wpc = "in_waiting"
    /\ IF ReadRaises
       THEN ReadErrorCaught
       ELSE /\ \/ wpc' = "while"
               \/ pos < Len(Wire(scenario)) /\ wpc' = "read"
            /\ UNCHANGED <<parsed, stale_reads>>
    /\ UNCHANGED <<serial, is_open, running, status, escaped>>
    /\ WorkerKeeps

\* self.serial.read(self.serial.in_waiting), extend and parse_buffer of lines 74-78
WRead ==
    /\ wpc = "read"
    /\ IF ReadRaises
       THEN /\ ReadErrorCaught
            /\ UNCHANGED <<pos, reads, data_buffer, last_process_time, frame_count, raw, call>>
       ELSE \E n \in InWaiting(scenario, Len(Wire(scenario)) - pos) :
              LET data == Slice(Wire(scenario), pos, pos + n)
                  buf  == data_buffer \o data
                  r    == parse_buffer(buf, last_process_time, frame_count, now)
              IN  /\ pos' = pos + n
                  /\ reads' = reads + 1
                  /\ data_buffer' = r.data_buffer
                  /\ last_process_time' = r.last_process_time
                  /\ frame_count' = r.frame_count
                  /\ raw' = raw \o r.raw
                  /\ parsed' = parsed \o r.parsed
                  /\ call' = [pre |-> buf, gate |-> r.gate, emitted |-> Len(r.raw),
                              made |-> TRUE]
                  /\ wpc' = "while"
                  /\ UNCHANGED stale_reads
    /\ UNCHANGED <<scenario, now, arg, sinkVars, refVars, cmdVars, serial, is_open, running, gpc,
                   port_state, status, escaped>>

\* The except of lines 82-84
WExceptOuter ==
    /\ wpc = "except_outer"
    /\ status' = Append(status, FALSE)
    /\ parsed' = Append(parsed, ErrorList("serial_error", <<>>))
    /\ wpc' = "close_running"
    /\ UNCHANGED <<serial, is_open, running, stale_reads, escaped>>
    /\ WorkerKeeps

\* self.close() of the finally, a statement at a time; run() ends with it
WClose ==
    /\ wpc \in ClosePcs
    /\ LET c == close(wpc, "done")
       IN  /\ wpc' = IF c.raised THEN "died" ELSE c.pc
           /\ running' = c.running
           /\ serial' = c.serial
           /\ is_open' = c.is_open
           /\ escaped' = IF c.raised THEN escaped \cup {"worker"} ELSE escaped
    /\ UNCHANGED <<status, parsed, stale_reads>>
    /\ WorkerKeeps

\* The device fails while the port is open
Unplug ==
    /\ port_state = "ok"
    /\ serial = "Serial"
    /\ is_open
    /\ port_state' = "faulty"
    /\ UNCHANGED <<scenario, pos, reads, now, data_buffer, last_process_time, frame_count,
                   raw, parsed, call, arg, sinkVars, refVars, cmdVars, serial, is_open, running,
                   wpc, gpc, status, stale_reads, escaped>>

\* What the steps of the GUI thread outside its sends leave alone
GuiKeeps ==
    UNCHANGED <<scenario, pos, reads, now, data_buffer, last_process_time, frame_count,
                raw, parsed, call, arg, sinkVars, refVars, cmdVars, wpc, port_state, status,
                stale_reads>>

\* toggle_connection (or closeEvent) finds the thread running and calls close()
GToggle ==
    /\ gpc = "idle"
    /\ isRunning
    /\ gpc' = "close_running"
    /\ UNCHANGED <<serial, is_open, running, escaped>>
    /\ GuiKeeps

\* close() called by the GUI thread, a statement at a time; wait() follows
GClose ==
    /\ gpc \in ClosePcs
    /\ LET c == close(gpc, "wait")
       IN  /\ gpc' = IF c.raised THEN "crashed" ELSE c.pc
           /\ running' = c.running
           /\ serial' = c.serial
           /\ is_open' = c.is_open
           /\ escaped' = IF c.raised THEN escaped \cup {"gui"} ELSE escaped
    /\ GuiKeeps

\* serial_thread.wait() returns when run() has ended
GWait ==
    /\ gpc = "wait"
    /\ ~ isRunning
    /\ gpc' = "disconnected"
    /\ UNCHANGED <<serial, is_open, running, escaped>>
    /\ GuiKeeps

\* The calls the GUI makes while connected: a bolt configuration, a start
\* command and a text of hexadecimal digits
ConnCalls ==
    { [op |-> "send_command", cmd_type |-> 1, bolt_type |-> 5, data |-> <<>>, write_ok |-> TRUE],
      [op |-> "send_command", cmd_type |-> 2, bolt_type |-> None, data |-> <<>>, write_ok |-> TRUE],
      [op |-> "send_data", cmd_type |-> 0, bolt_type |-> None,
       data |-> <<"0", "1", " ", "0", "4">>, write_ok |-> TRUE] }

\* What the steps of a send leave alone
SendKeeps ==
    UNCHANGED <<scenario, pos, reads, now, data_buffer, last_process_time, frame_count,
                raw, call, arg, sinkVars, refVars, serial, is_open, running, wpc, port_state,
                status, stale_reads>>

\* A handler of the GUI finds the thread running and calls send_command or send_data
GSend ==
    /\ gpc = "idle"
    /\ isRunning
    /\ result = "none"
    /\ cmd = NoCmd
    /\ cmd' \in ConnCalls
    /\ gpc' = "send_test"
    /\ UNCHANGED <<written, result, parsed, escaped>>
    /\ SendKeeps

\* if self.serial and self.serial.is_open, one read of self.serial at a time
\* and outside the try; then the try block, whose except catches what the
\* write raises
GSendStep ==
    /\ gpc \in {"send_test", "send_is_open", "send_write"}
    /\ CASE gpc = "send_test" ->
              /\ IF serial = "None"
                 THEN gpc' = "idle" /\ result' = "False"
                 ELSE gpc' = "send_is_open" /\ result' = result
              /\ UNCHANGED <<written, parsed, escaped>>
         [] gpc = "send_is_open" ->
              /\ IF serial = "None"
                 THEN gpc' = "crashed" /\ escaped' = escaped \cup {"gui"} /\ result' = result
                 ELSE IF is_open
                 THEN gpc' = "send_write" /\ UNCHANGED <<escaped, result>>
                 ELSE gpc' = "idle" /\ result' = "False" /\ escaped' = escaped
              /\ UNCHANGED <<written, parsed>>
         [] gpc = "send_write" ->
              LET ok  == ~ Released /\ port_state = "ok" /\ cmd.write_ok
                  out == IF cmd.op = "send_command"
                         THEN send_command(cmd.cmd_type, cmd.bolt_type, "Serial", TRUE, ok)
                         ELSE send_data(cmd.data, "Serial", TRUE, ok)
              IN  /\ written' = written \o out.written
                  /\ result' = out.result
                  /\ parsed' = parsed \o out.parsed
                  /\ gpc' = "idle"
                  /\ escaped' = escaped
    /\ UNCHANGED cmd
    /\ SendKeeps

NextConn ==
    \/ WOpen \/ WEmitStatus \/ WSetRunning \/ WSetBufferSize \/ WWhile
    \/ WInWaiting \/ WRead \/ WExceptOuter \/ WClose
    \/ Unplug
    \/ GToggle \/ GClose \/ GWait \/ GSend \/ GSendStep

SpecConn == InitConn /\ [][NextConn]_vars

----------------------------------------------------------------------------
(* Closing the connection *)

\* The worker is in its loop
InLoop == wpc \in {"while", "in_waiting", "read"}

\* C17: whenever close() is called on a connection whose thread is running,
\* at whatever point of run(), the loop sees it at its head and ends, so that
\* the thread ends and wait() returns: once close() has returned and the GUI
\* thread waits, running is False for the test of line 70 to find.
C17_CloseStopsTheLoop ==
    (gpc = "wait" /\ InLoop) => ~ running

\* C18: the port is released only after the loop has ended: the worker never
\* asks a serial that close() has closed or set to None for in_waiting or a read.
C18_NoReadAfterRelease ==
    stale_reads = 0

\* C19: a transport error is fatal to the connection.  When the port cannot
\* be opened the worker reports the disconnect and the error once and ends;
\* when the device fails under a read the error is reported once and the
\* worker is out of its loop, not reading again.
C19_TransportErrorFatal ==
    /\ (port_state = "absent" /\ wpc = "done")
          => status = <<FALSE>> /\ parsed = <<ErrorList("serial_error", <<>>)>>
    /\ (port_state = "faulty" /\ gpc = "idle" /\ ReadErrors >= 1)
          => ReadErrors = 1 /\ wpc \notin {"in_waiting", "read"}

\* C20: under every interleaving of the worker (its loop and the close() of
\* its finally) with close(), send_command() and send_data() called by the
\* GUI thread, no exception leaves a handler.
C20_NoExceptionEscapes ==
    escaped = {}

----------------------------------------------------------------------------
(* The handoff from the worker to the receiver *)

HandoffCapacity == 2

\* The lists emitted on parsed_data_received that update_parsed_data has not handled yet
Pending == Len(parsed) - delivered

\* C21: the handoff of records to the receiver is bounded: the records
\* emitted and not yet handled never number more than a fixed capacity, the
\* oldest being dropped when the receiver does not keep up.
C21_HandoffBounded ==
    Pending <= HandoffCapacity

----------------------------------------------------------------------------
(* What the buffer holds *)

\* b is the end of s, byte for byte
IsSuffix(b, s) ==
    /\ Len(b) <= Len(s)
    /\ \A k \in 1..Len(b) : b[k] = s[Len(s) - Len(b) + k]

\* C23: bytes leave the buffer only from the front: after any reads and
\* parse_buffer calls data_buffer is a suffix of all the bytes received on the
\* connection, none of them reordered, duplicated or altered inside it.
C23_BufferIsSuffixOfStream ==
    IsSuffix(data_buffer, stream)

\* C23 witness: a call found no frame in more than 1000 bytes of noise and
\* cut the buffer to the last 200 of the bytes received
C23_Witness ==
    /\ scenario = "bulk_noise"
    /\ call.made
    /\ call.gate
    /\ Len(call.pre) > OverflowThreshold
    /\ Len(data_buffer) = KeepOnOverflow
    /\ pos > Len(data_buffer)
    /\ IsSuffix(data_buffer, stream)

----------------------------------------------------------------------------
(* What a call that emits a frame does *)

\* The first index from 34 on at which 0x80 0x7F lies in b
FirstTrailerFrom34(b) ==
    CHOOSE i \in TrailerAt(b) : i >= 34 /\ \A j \in TrailerAt(b) : j >= 34 => i <= j

\* C24: when a parse_buffer call emits a frame, with i the first index such
\* that buffer[i] = 0x80, buffer[i+1] = 0x7F and i >= 34, the frame is the 36
\* bytes buffer[i-34 .. i+1] and the buffer afterwards is the bytes that
\* followed index i+1; what lay before the frame is dropped.
C24_ExtractionPostcondition ==
    [][(ParseBufferCalled /\ call'.emitted = 1) =>
          LET b == call'.pre
              i == FirstTrailerFrom34(b)
          IN  /\ raw' = Append(raw, Slice(b, i - 34, i + 2))
              /\ Len(raw'[Len(raw')]) = 36
              /\ data_buffer' = Slice(b, i + 2, Len(b))]_vars

\* C24 witness: 20 bytes of a frame and two whole frames came in one read;
\* the call emitted the first whole frame and left the second in the buffer
C24_Witness ==
    /\ scenario = "partial_frame"
    /\ call.made
    /\ call.pre = WirePartialFrame
    /\ call.emitted = 1
    /\ raw = <<FrameTwo>>
    /\ data_buffer = FrameNeg

----------------------------------------------------------------------------
(* A trailer too early in the buffer *)

\* b holds 0x80 0x7F with fewer than 34 bytes before it, and again further on
EarlyAndLateTrailer(b) ==
    /\ \E i \in TrailerAt(b) : i < 34
    /\ \E j \in TrailerAt(b) : j >= 34

\* C25: a trailer with fewer than 34 bytes before it is skipped and the scan
\* goes on in the same call: a call that scans a buffer holding such a trailer
\* and a later one with 34 bytes or more before it emits the 36 bytes that end
\* at the later one, and no frame emitted is shorter than 36 bytes.
C25_EarlyTrailerSkipped ==
    [][(ParseBufferCalled /\ call'.gate /\ EarlyAndLateTrailer(call'.pre)) =>
          LET b == call'.pre
              j == FirstTrailerFrom34(b)
          IN  /\ call'.emitted = 1
              /\ Len(raw') = Len(raw) + 1
              /\ raw'[Len(raw')] = Slice(b, j - 34, j + 2)
              /\ \A k \in 1..Len(raw') : Len(raw'[k]) >= 36]_vars

\* C25 witness: the stream began with 0x80 0x7F, then noise and two frames,
\* all read at once; the call passed over the trailer at index 0, emitted the
\* first frame and left the second
C25_Witness ==
    /\ scenario = "early_trailer"
    /\ call.made
    /\ call.pre = WireEarlyTrailer
    /\ Trailer(call.pre, 0)
    /\ call.emitted = 1
    /\ raw = <<FrameOne>>
    /\ data_buffer = FrameTwo

----------------------------------------------------------------------------
(* A call on a short buffer *)

\* C26: a parse_buffer call made while the buffer holds fewer than 36 bytes
\* does nothing: it emits nothing and leaves the buffer and last_process_time
\* as they are, so that it does not use up the interval of a following call.
C26_ShortBufferCallIsNoOp ==
    [][(ParseBufferCalled /\ Len(call'.pre) < 36) =>
          /\ raw' = raw
          /\ parsed' = parsed
          /\ data_buffer' = call'.pre
          /\ last_process_time' = last_process_time]_vars

----------------------------------------------------------------------------
(* Frames left in the buffer *)

\* A call left a whole frame at the front of the buffer
FrameLeftAtFront ==
    /\ call.made
    /\ Len(data_buffer) >= 36
    /\ Trailer(data_buffer, 34)

\* C27: whole frames left in the buffer by a parse_buffer call are not lost:
\* each following read and call emits the next of them, in the order of the
\* stream, none skipped or destroyed.
C27_LeftFramesEmittedByNextCycle ==
    [][(FrameLeftAtFront /\ ParseBufferCalled) =>
          /\ raw' = Append(raw, Slice(data_buffer, 0, 36))
          /\ data_buffer' = Slice(call'.pre, 36, Len(call'.pre))]_vars

----------------------------------------------------------------------------
(* What the scan hands to process_frame *)

\* C28: every frame that parse_buffer hands to process_frame is 36 bytes long
\* and ends with 0x80 0x7F, so neither the wrong-length nor the bad-trailer
\* branch of process_frame is taken (each frame is emitted and nothing but
\* records is emitted), nor the wrong-length branch of parse_buffer (a call
\* that scans a trailer with 34 bytes before it emits).
C28_OnlyWholeFramesDecoded ==
    /\ \A k \in 1..Len(raw) :
          Len(raw[k]) = 36 /\ raw[k][35] = 128 /\ raw[k][36] = 127
    /\ \A k \in 1..Len(parsed) : parsed[k].what = "record"
    /\ frame_count = Len(raw)
    /\ (call.made /\ call.gate /\ (\E i \in TrailerAt(call.pre) : i >= 34))
          => call.emitted = 1

\* C28 witness: after 10 bytes of noise a frame with 0x80 0x7F in its payload
\* was cut at that trailer; what was handed on is 36 bytes ending in the
\* trailer all the same, and a record was emitted for it
C28_Witness ==
    /\ scenario = "inf_frame"
    /\ Len(raw) >= 1
    /\ raw[1] # FrameInf
    /\ Len(raw[1]) = 36
    /\ Trailer(raw[1], 34)
    /\ parsed[1].what = "record"
    /\ frame_count = Len(raw)

----------------------------------------------------------------------------
(* Several frames in the buffer at one call *)

\* b begins with two whole frames
SeveralFrames(b) ==
    /\ Len(b) >= 72
    /\ Trailer(b, 34)
    /\ Trailer(b, 70)

\* The last index at which 0x80 0x7F lies in b
LastTrailer(b) == CHOOSE i \in TrailerAt(b) : \A j \in TrailerAt(b) : i >= j

\* A call that scanned a buffer beginning with two whole frames
ScannedSeveralFrames == ParseBufferCalled /\ call'.gate /\ SeveralFrames(call'.pre)

\* C29: when several whole frames lie one after the other in the buffer at a
\* parse_buffer call, only the last frame found is emitted and the frames
\* before it are removed from the buffer without being emitted.
C29_LastFrameKept ==
    [][ScannedSeveralFrames =>
          LET b == call'.pre
              i == LastTrailer(b)
          IN  /\ raw' = Append(raw, Slice(b, i - 34, i + 2))
              /\ data_buffer' = Slice(b, i + 2, Len(b))]_vars

\* C29 as the code has it: the first of the frames is emitted and the frames
\* after it stay in the buffer, whole and in order
C29_FirstFrameEmittedRestKept ==
    [][ScannedSeveralFrames =>
          LET b == call'.pre
          IN  /\ raw' = Append(raw, SubSeq(b, 1, 36))
              /\ data_buffer' = SubSeq(b, 37, Len(b))
              /\ SubSeq(data_buffer', 1, 36) = SubSeq(b, 37, 72)]_vars

\* C29 witness: three frames came in one read; the call emitted the first and
\* left the second and third in the buffer
C29_Witness ==
    /\ scenario = "three_frames"
    /\ call.made
    /\ call.gate
    /\ call.pre = WireThreeFrames
    /\ raw = <<FrameOne>>
    /\ data_buffer = FrameTwo \o FrameNeg

----------------------------------------------------------------------------
(* Eviction and the frames emitted: the worker on streams that fill the     *)
(* buffer past 1000 bytes, next to the same worker without eviction, which  *)
(* is given the same chunks at the same times.                              *)

EvictScenarios == BulkScenarios \cup {"evict_cut"}

InitEvict ==
    /\ scenario \in EvictScenarios
    /\ pos = 0
    /\ reads = 0
    /\ now = StartTime
    /\ arg = NoArg
    /\ InitFields
    /\ cmd = NoCmd
    /\ Polling

NextEvict == Read \/ Tick

SpecEvict == InitEvict /\ [][NextEvict]_vars

\* C30: eviction never changes which frames are emitted: for every stream and
\* every schedule of calls the frames emitted are those that the same worker
\* emits with eviction disabled, and what is left in its buffer is the end of
\* what is left in the other's.
C30_EvictionKeepsFrames ==
    /\ raw = ref_raw
    /\ IsSuffix(data_buffer, ref_buffer)

\* C30 witness: eviction cut the buffer while it ended with the first 20
\* bytes of a frame; the rest of the frame came, and the call, on a buffer
\* shorter than the stream, emitted that frame as the worker without eviction did
C30_Witness ==
    /\ scenario = "evict_cut"
    /\ call.made
    /\ call.emitted = 1
    /\ Len(call.pre) < pos
    /\ Len(call.pre) <= KeepOnOverflow + NoiseRead
    /\ raw = <<FrameOne>>
    /\ ref_raw = <<FrameOne>>

----------------------------------------------------------------------------
(* One connection after another: toggle_connection closes the connection    *)
(* and waits for the thread, and on the next click makes a new SerialThread *)
(* and starts it.  The signals of both threads go to the same window, so    *)
(* raw and parsed go on across the connections.                             *)

MaxConnections == 2

FirstScenarios == {"partial_frame", "three_frames", "early_trailer"}
NextScenarios  == {"one_frame", "early_trailer"}

InitReconnect ==
    /\ scenario \in FirstScenarios
    /\ pos = 0
    /\ reads = 0
    /\ now = StartTime
    /\ arg = NoArg
    /\ InitFields
    /\ cmd = NoCmd
    /\ Polling

\* A turn of the loop of a worker that is running
Poll ==
    /\ running
    /\ wpc = "while"
    /\ Read

\* toggle_connection on a running thread: close() and wait(), taken as one step
Disconnect ==
    /\ gpc = "idle"
    /\ wpc = "while"
    /\ Len(status) < MaxConnections
    /\ running' = FALSE
    /\ serial' = "None"
    /\ is_open' = FALSE
    /\ wpc' = "done"
    /\ gpc' = "disconnected"
    /\ self_bolt_type' = "None"
    /\ UNCHANGED <<scenario, pos, reads, now, data_buffer, last_process_time, frame_count,
                   raw, parsed, call, arg, total_frames, delivered, current_time,
                   data_buffers, refVars, cmdVars, port_state, status, stale_reads, escaped>>

\* Connect making no new SerialThread: the fields of the old one are kept
ConnectSameThread ==
    /\ gpc = "disconnected"
    /\ Len(status) < MaxConnections
    /\ scenario' \in NextScenarios
    /\ pos' = 0
    /\ reads' = 0
    /\ serial' = "Serial"
    /\ is_open' = TRUE
    /\ running' = TRUE
    /\ wpc' = "while"
    /\ gpc' = "idle"
    /\ status' = Append(status, TRUE)
    /\ UNCHANGED <<now, data_buffer, last_process_time, frame_count, raw, parsed, call,
                   arg, sinkVars, refVars, cmdVars, port_state, stale_reads, escaped>>

\* toggle_connection with no thread running: a new SerialThread (its fields
\* as __init__ sets them) is started, opens the port and comes to its loop
Connect ==
    /\ gpc = "disconnected"
    /\ Len(status) < MaxConnections
    /\ scenario' \in NextScenarios
    /\ pos' = 0
    /\ reads' = 0
    /\ data_buffer' = <<>>
    /\ last_process_time' = 0
    /\ frame_count' = 0
    /\ ref_buffer' = <<>>
    /\ serial' = "Serial"
    /\ is_open' = TRUE
    /\ running' = TRUE
    /\ wpc' = "while"
    /\ gpc' = "idle"
    /\ status' = Append(status, TRUE)
    /\ UNCHANGED <<now, raw, parsed, call, arg, sinkVars, ref_raw, cmdVars, port_state,
                   stale_reads, escaped>>

NextReconnect == Poll \/ Tick \/ Disconnect \/ Connect

SpecReconnect == InitReconnect /\ [][NextReconnect]_vars

\* f is 36 bytes in a row of s
IsSliceOf(f, s) ==
    \E a \in 0..(Len(s) - Len(f)) : \A k \in 1..Len(f) : f[k] = s[a + k]

\* The step starts a connection
ConnectionStarted == Len(status') = Len(status) + 1

\* C22: a new connection starts with an empty buffer and a last-processed
\* time of zero, whatever the thread of the connection before left in its
\* own, and every frame emitted afterwards is 36 bytes in a row of the bytes
\* received on the new connection: no byte of an earlier one is in it.
C22_ConnectionStartsClean ==
    [][ /\ ConnectionStarted => (data_buffer' = <<>> /\ last_process_time' = 0)
        /\ \A k \in (Len(raw) + 1)..Len(raw') : IsSliceOf(raw'[k], stream') ]_vars

\* C22 witness: the thread of the first connection was stopped with a whole
\* frame in its buffer, held back by the gate, and the second connection has
\* started: its buffer is empty and its last-processed time zero
C22_Witness ==
    /\ Len(status) = 2
    /\ reads = 0
    /\ call.made
    /\ ~call.gate
    /\ Cuts(call.pre) # {}
    /\ running
    /\ data_buffer = <<>>
    /\ last_process_time = 0

----------------------------------------------------------------------------
(* The frames against a decoder that has the whole stream before it *)

\* Every stream of the model, read by one worker
StreamScenarios == Scenarios \cup BulkScenarios \cup {"one_frame", "evict_cut"}

InitStreams ==
    /\ scenario \in StreamScenarios
    /\ pos = 0
    /\ reads = 0
    /\ now = StartTime
    /\ arg = NoArg
    /\ InitFields
    /\ cmd = NoCmd
    /\ Polling

NextStreams == Read \/ Tick

SpecStreams == InitStreams /\ [][NextStreams]_vars

\* The trailer 0x80 0x7F lies at i, i + 1 of s
TrailerIn(s, i) == At(s, i) = 128 /\ At(s, i + 1) = 127

\* The indices of the trailers at which the reference decoder cuts s: each the
\* first trailer lying at least 34 bytes after the cut before it (from)
RECURSIVE ReferenceCuts(_, _)
ReferenceCuts(s, from) ==
    LET later == { i \in (from + 34)..(Len(s) - 2) : TrailerIn(s, i) }
    IN  IF later = {} THEN <<>>
        ELSE LET i == CHOOSE j \in later : \A l \in later : j <= l
             IN  <<i>> \o ReferenceCuts(s, i + 2)

\* The cuts of the reference decoder in the whole stream of each scenario
Reference ==
    [sc \in StreamScenarios |-> ReferenceCuts(Wire(sc), 0)]

\* C31: whatever the chunks of the reads and the times of the calls, the
\* frames emitted so far are the first frames of the reference decoder run
\* over the whole stream, each the 36 bytes ending with its trailer, received
\* already, and starting no earlier than the frame before it ends.
C31_EmittedIsPrefixOfReference ==
    LET cuts == Reference[scenario]
    IN  /\ Len(raw) <= Len(cuts)
        /\ \A k \in 1..Len(raw) :
              /\ raw[k] = Slice(Wire(scenario), cuts[k] - 34, cuts[k] + 2)
              /\ cuts[k] + 2 <= pos
              /\ k > 1 => cuts[k] - 34 >= cuts[k - 1] + 2

\* C31 witness: in more than 1000 bytes of noise the buffer was cut to its
\* last 200 bytes, 20 bytes into a frame; the whole stream has been read and
\* the first of the two frames of the reference decoder has been emitted
C31_Witness ==
    /\ scenario = "evict_cut"
    /\ raw = <<FrameOne>>
    /\ Len(Reference[scenario]) = 2
    /\ call.made
    /\ call.emitted = 1
    /\ Len(call.pre) <= KeepOnOverflow + NoiseRead
    /\ pos = Len(Wire(scenario))

----------------------------------------------------------------------------
(* The bolt buttons: the worker thread in run(), statement by statement,   *)
(* and the handlers of the window, each run in one step by the GUI thread: *)
(* toggle_connection, send_bolt_config and send_start_bolt.  written is    *)
(* what the port of the present connection was given.                      *)

MaxWrites == 2

\* bolt_name of send_bolt_config
BoltName(b) ==
    CASE b = 4 -> "M4"
      [] b = 5 -> "M5"
      [] b = 6 -> "M6"
      [] OTHER -> "None"

InitBolt ==
    /\ scenario = "one_frame"
    /\ pos = 0
    /\ reads = 0
    /\ now = StartTime
    /\ arg = NoArg
    /\ InitFields
    /\ cmd = NoCmd
    /\ serial = "None"
    /\ is_open = FALSE
    /\ running = FALSE
    /\ wpc = "start"
    /\ gpc = "idle"
    /\ port_state \in {"ok", "absent"}
    /\ status = <<>>

\* What a handler that sends leaves alone
HandlerKeeps ==
    UNCHANGED <<scenario, pos, reads, now, data_buffer, last_process_time, frame_count,
                raw, call, arg, total_frames, delivered, current_time, data_buffers,
                refVars, connVars>>

\* toggle_connection after wait() has returned: lines 687-698
GDisconnected ==
    /\ gpc = "disconnected"
    /\ self_bolt_type' = "None"
    /\ gpc' = "idle"
    /\ UNCHANGED <<scenario, pos, reads, now, data_buffer, last_process_time, frame_count,
                   raw, parsed, call, arg, total_frames, delivered, current_time,
                   data_buffers, refVars, cmdVars, serial, is_open, running, wpc,
                   port_state, status, stale_reads, escaped>>

\* toggle_connection with no thread running: a new SerialThread is made and
\* started; the port it is to open has been given nothing yet
GConnect ==
    /\ gpc = "idle"
    /\ ~ isRunning
    /\ Len(status) <= MaxConnections
    /\ pos' = 0
    /\ reads' = 0
    /\ data_buffer' = <<>>
    /\ last_process_time' = 0
    /\ frame_count' = 0
    /\ ref_buffer' = <<>>
    /\ serial' = "None"
    /\ is_open' = FALSE
    /\ running' = FALSE
    /\ wpc' = "start"
    /\ written' = <<>>
    /\ UNCHANGED <<scenario, now, raw, parsed, call, arg, sinkVars, ref_raw, cmd, result,
                   gpc, port_state, status, stale_reads, escaped>>

\* send_bolt_config(b), with the send_command it calls
GSendBoltConfig ==
    /\ gpc = "idle"
    /\ Len(written) < MaxWrites
    /\ \E b \in 4..MaxCode :
          /\ cmd' = [op |-> "send_bolt_config", cmd_type |-> 1, bolt_type |-> b,
                     data |-> <<>>, write_ok |-> TRUE]
          /\ IF BoltName(b) = "None" \/ ~ isRunning
             THEN UNCHANGED <<written, result, parsed, self_bolt_type>>
             ELSE LET out == send_command(1, b, serial, is_open, port_state = "ok")
                  IN  /\ written' = written \o out.written
                      /\ result' = out.result
                      /\ parsed' = parsed \o out.parsed
                      /\ self_bolt_type' = IF out.result = "True" THEN BoltName(b)
                                           ELSE self_bolt_type
    /\ HandlerKeeps

\* send_start_bolt, with the send_command it calls
GSendStartBolt ==
    /\ gpc = "idle"
    /\ Len(written) < MaxWrites
    /\ cmd' = [op |-> "send_start_bolt", cmd_type |-> 2, bolt_type |-> None,
               data |-> <<>>, write_ok |-> TRUE]
    /\ IF self_bolt_type = "None" \/ ~ isRunning
       THEN UNCHANGED <<written, result, parsed>>
       ELSE LET out == send_command(2, None, serial, is_open, port_state = "ok")
            IN  /\ written' = written \o out.written
                /\ result' = out.result
                /\ parsed' = parsed \o out.parsed
    /\ UNCHANGED self_bolt_type
    /\ HandlerKeeps

NextBolt ==
    \/ WOpen \/ WEmitStatus \/ WSetRunning \/ WSetBufferSize \/ WWhile
    \/ WInWaiting \/ WRead \/ WExceptOuter \/ WClose
    \/ GToggle \/ GClose \/ GWait \/ GDisconnected \/ GConnect
    \/ GSendBoltConfig \/ GSendStartBolt

SpecBolt == InitBolt /\ [][NextBolt]_vars

\* The configure commands of the three bolts, as written
ConfigureBytes == { CommandBytes(1, b) : b \in {4, 5, 6} }

\* C32: the start byte 0x02 is written only after a configure command was
\* written on the same connection, the field bolt_type being set only from a
\* configure command that was written until the next disconnect.
C32_StartOnlyAfterConfig ==
    \A k \in 1..Len(written) :
        written[k] = <<2>> => \E j \in 1..(k - 1) : written[j] \in ConfigureBytes

====
